---- MODULE Spec2Model ----
(***************************************************************************)
(* SuperMango backend: the /getPrescription route (routes/core.py) and the *)
(* rule-based prescription engine (services/rule_service.py).              *)
(*                                                                         *)
(* An uploaded image is represented by the class the (opaque, read-only)   *)
(* ResNet classifier assigns to it, or by Malformed when PIL cannot decode *)
(* its bytes.  Weather values are floats in the code; every threshold of   *)
(* the code is an integer, so the model draws them from integer sample     *)
(* points on, just below and just above each threshold (a NaN, which       *)
(* fails every comparison, is not among them).                             *)
(* percent_severity_index is kept in hundredths (33.33 is 3333).           *)
(***************************************************************************)
EXTENDS Integers, Sequences, FiniteSets, TLC

\* ------------------------------------------------------------------ bounds
MaxBatch     == 3    \* longest image batch of a request served alone
MaxConcBatch == 2    \* longest image batch of concurrently served requests
MaxGeoBatch  == 1    \* longest image batch of requests sent from several places
NumRequests  == 2    \* request slots of the server
MaxIdx       == 5    \* severity_idx handed to get_recommendation: -MaxIdx-1 .. MaxIdx

\* --------------------------------------------------------------- constants
NUM_CLASSES        == 4
CLASS_LABELS       == <<"Healthy", "Mild", "Moderate", "Severe">>
MAX_SEVERITY_SCORE == NUM_CLASSES - 1
RISK_TIERS         == {"Low", "Medium", "High"}

\* An upload: whether PIL can decode it, and the class the classifier gives it.
Classes   == 0 .. (NUM_CLASSES - 1)
Image(c)  == [decodable |-> TRUE, class |-> c]
Malformed == [decodable |-> FALSE, class |-> 0]
Images    == { Image(c) : c \in Classes } \cup {Malformed}

Requests  == 1 .. NumRequests

Temps == {18, 20, 21, 22, 23, 24, 25, 27, 30, 31}
Hums  == {-5, 84, 85, 90, 94, 95, 96, 99}
Wets  == {5, 6, 7, 8, 11, 12, 13, 14, 20}
Lats  == {14, 15}
Lons  == {120, 121}

\* weather readings <<humidity, temperature, wetness>> of the requests served
RouteWeather == { <<96, 27, 13>>, <<96, 23, 7>>, <<99, 18, 20>>,
                  <<90, 24, 8>>, <<-5, 27, 13>>, <<84, 30, 12>> }
ConcWeather  == { <<96, 27, 13>>, <<99, 18, 20>> }
ConcCoords   == { <<14, 121>>, <<15, 120>> }
ConcImages   == { Image(0), Image(3) }
HomeCoords   == <<14, 121>>
IdxRange     == (0 - MaxIdx - 1) .. MaxIdx

SeqsUpTo(S, n) == UNION { [1 .. k -> S] : k \in 0 .. n }

\* ----------------------------------------------------------------- helpers
\* Python list indexing: 0-based, negative indices count from the end,
\* anything else raises IndexError.
PyIndex(list, i) ==
    IF 0 <= i /\ i < Len(list) THEN [kind |-> "ok", value |-> list[i + 1]]
    ELSE IF -Len(list) <= i /\ i < 0
         THEN [kind |-> "ok", value |-> list[Len(list) + i + 1]]
         ELSE [kind |-> "IndexError"]

\* Python dict lookup: a missing key raises KeyError.
PyLookup(table, key) ==
    IF key \in DOMAIN table THEN [kind |-> "ok", value |-> table[key]]
    ELSE [kind |-> "KeyError"]

PyRoundHalfUp(n, d) ==
    IF 2 * (n % d) >= d THEN (n \div d) + 1 ELSE n \div d

\* Python round() of the quotient n / d (d > 0): to the nearest integer,
\* a tie to the even one.  With a second argument of 2 the same rule is
\* applied to the quotient scaled by 100.
PyRound(n, d) ==
    LET q == n \div d
        r == n % d
    IN  IF 2 * r < d THEN q
        ELSE IF 2 * r > d THEN q + 1
        ELSE IF q % 2 = 0 THEN q ELSE q + 1

\* ------------------------------------------------- 1. weather-risk classifier
high_classic(temp, rh, wet) ==
    25 <= temp /\ temp <= 30 /\ rh >= 95 /\ wet >= 12

high_rainsun_loose(temp, rh, wet) ==
    20 <= temp /\ temp <= 30 /\ rh >= 95 /\ wet >= 6

high_rainsun(temp, rh, wet) ==
    22 <= temp /\ temp <= 30 /\ rh >= 95 /\ wet >= 6

low_rule(temp, rh, wet) ==
    temp < 22 \/ rh < 85 \/ wet < 6

_weather_risk_lax(temp, rh, wet) ==
    IF high_classic(temp, rh, wet) \/ high_rainsun(temp, rh, wet) THEN "High"
    ELSE IF temp < 22 \/ rh < 85 \/ wet <= 6 THEN "Low"
    ELSE "Medium"

_weather_risk(temp, rh, wet) ==
    IF high_classic(temp, rh, wet) \/ high_rainsun(temp, rh, wet) THEN "High"
    ELSE IF low_rule(temp, rh, wet) THEN "Low"
    ELSE "Medium"

\* ---------------------------------------------------- 2. rule & info matrices
\* Each text is represented by its opening sentence.
_RULE_MATRIX_gap ==
       (<<"Healthy",  "Low">>    :> "1. Inspect a few trees every 5 days for new spots.")
    @@ (<<"Mild",     "Low">>    :> "1. Pluck leaves with lesions and discard them far from the block.")
    @@ (<<"Moderate", "Low">>    :> "1. Spot-spray copper oxychloride 2 g/L on clusters with lesions.")
    @@ (<<"Severe",   "Low">>    :> "1. Remove heavily infected branches and burn them off-site.")
    @@ (<<"Healthy",  "Medium">> :> "1. Blanket-spray copper hydroxide 2 g/L.")
    @@ (<<"Mild",     "Medium">> :> "1. Collect and remove infected foliage.")
    @@ (<<"Moderate", "Medium">> :> "1. Mix tebuconazole 0.2 mL/L + mancozeb 2 g/L; spray to runoff.")
    @@ (<<"Healthy",  "High">>   :> "1. Within 24 h spray copper oxychloride 2 g/L.")
    @@ (<<"Mild",     "High">>   :> "1. Within 24 h spray azoxystrobin 0.2 mL/L + mancozeb 2 g/L.")
    @@ (<<"Moderate", "High">>   :> "1. Prune branches with heavy spotting before spraying.")
    @@ (<<"Severe",   "High">>   :> "1. Quarantine the block - essential staff only.")

_RULE_MATRIX ==
       (<<"Healthy",  "Low">>    :> "1. Inspect a few trees every 5 days for new spots.")
    @@ (<<"Mild",     "Low">>    :> "1. Pluck leaves with lesions and discard them far from the block.")
    @@ (<<"Moderate", "Low">>    :> "1. Spot-spray copper oxychloride 2 g/L on clusters with lesions.")
    @@ (<<"Severe",   "Low">>    :> "1. Remove heavily infected branches and burn them off-site.")
    @@ (<<"Healthy",  "Medium">> :> "1. Blanket-spray copper hydroxide 2 g/L.")
    @@ (<<"Mild",     "Medium">> :> "1. Collect and remove infected foliage.")
    @@ (<<"Moderate", "Medium">> :> "1. Mix tebuconazole 0.2 mL/L + mancozeb 2 g/L; spray to runoff.")
    @@ (<<"Severe",   "Medium">> :> "1. Lop off fruiting twigs with lesions; burn them.")
    @@ (<<"Healthy",  "High">>   :> "1. Within 24 h spray copper oxychloride 2 g/L.")
    @@ (<<"Mild",     "High">>   :> "1. Within 24 h spray azoxystrobin 0.2 mL/L + mancozeb 2 g/L.")
    @@ (<<"Moderate", "High">>   :> "1. Prune branches with heavy spotting before spraying.")
    @@ (<<"Severe",   "High">>   :> "1. Quarantine the block - essential staff only.")

_INFO_MATRIX ==
       (<<"Healthy",  "Low">>    :> "Cool, dry weather slows spores - watchful waiting is enough.")
    @@ (<<"Mild",     "Low">>    :> "Early lesion removal cuts the spore load; non-systemic copper is gentle on soil life.")
    @@ (<<"Moderate", "Low">>    :> "Copper shields the surface; pruning lowers inoculum; rotation avoids resistance.")
    @@ (<<"Severe",   "Low">>    :> "Systemic + protectant reaches hidden infections; wound paint blocks new entry points.")
    @@ (<<"Healthy",  "Medium">> :> "Weather is turning friendly to the fungus; copper barrier stops spores from germinating.")
    @@ (<<"Mild",     "Medium">> :> "Protectant cleans the leaf, systemic cures hidden spots; alternating classes prevents immunity.")
    @@ (<<"Moderate", "Medium">> :> "Mixed modes of action tackle established lesions; FRAC rotation keeps chemistry effective.")
    @@ (<<"Severe",   "Medium">> :> "Heavy sanitation plus wound care remove reservoirs while rotating fungicides holds the line.")
    @@ (<<"Healthy",  "High">>   :> "Prolonged wet, humid spells are perfect for infection - continuous copper barrier is vital.")
    @@ (<<"Mild",     "High">>   :> "Curative systemic freezes the fungus; protectant stops new spread; strict rotation fights resistance.")
    @@ (<<"Moderate", "High">>   :> "Rapid spread needs multiple actives and short intervals; rotation + sanitation contain the 24-h threat.")
    @@ (<<"Severe",   "High">>   :> "When canopy infection meets perfect weather, only combined chemical, sanitation, and wound-sealing can salvage any yield.")

\* -------------------------------------------------------------- 3. public API
\* The outcome of get_recommendation: the returned dict (kind "ok") or the
\* exception the first failing subscript raises, in the code's order:
\* CLASS_LABELS[severity_idx], then _RULE_MATRIX[..], then _INFO_MATRIX[..].
get_recommendation(severity_idx, humidity, temperature, wetness) ==
    LET severity_label == PyIndex(CLASS_LABELS, severity_idx)
        risk_label     == _weather_risk(temperature, humidity, wetness)
    IN  IF severity_label.kind # "ok" THEN [kind |-> severity_label.kind]
        ELSE LET key    == <<severity_label.value, risk_label>>
                 advice == PyLookup(_RULE_MATRIX, key)
                 info   == PyLookup(_INFO_MATRIX, key)
             IN  IF advice.kind # "ok" THEN [kind |-> advice.kind]
                 ELSE IF info.kind # "ok" THEN [kind |-> info.kind]
                 ELSE [kind           |-> "ok",
                       severity_label |-> severity_label.value,
                       weather_risk   |-> risk_label,
                       advice         |-> advice.value,
                       info           |-> info.value]

\* ------------------------------------------------------------ server state
VARIABLES
    pc,            \* per request: "idle", "read" (suspended in await file.read()), "done"
    files,         \* per request: the uploaded batch
    humidity, temperature, wetness, lat, lon,   \* per request: the form fields
    idx,           \* per request: enumerate() index of the file being read
    predictions,   \* per request: the list built by the loop
    severity_sum,  \* per request: the running sum
    outcome,       \* per request: "pending", "ok" or the exception that ended it
    api_response,  \* per request: the dict returned, NoResponse otherwise
    adv_call,      \* arguments of the last direct get_recommendation call
    adv_result     \* its outcome

route_vars == <<pc, files, humidity, temperature, wetness, lat, lon, idx,
                predictions, severity_sum, outcome, api_response>>
adv_vars   == <<adv_call, adv_result>>
vars       == <<pc, files, humidity, temperature, wetness, lat, lon, idx,
                predictions, severity_sum, outcome, api_response,
                adv_call, adv_result>>

NoResponse == [kind |-> "none"]
NoCall     == [kind |-> "none"]

Init ==
    /\ pc           = [r \in Requests |-> "idle"]
    /\ files        = [r \in Requests |-> <<>>]
    /\ humidity     = [r \in Requests |-> 0]
    /\ temperature  = [r \in Requests |-> 0]
    /\ wetness      = [r \in Requests |-> 0]
    /\ lat          = [r \in Requests |-> 0]
    /\ lon          = [r \in Requests |-> 0]
    /\ idx          = [r \in Requests |-> 0]
    /\ predictions  = [r \in Requests |-> <<>>]
    /\ severity_sum = [r \in Requests |-> 0]
    /\ outcome      = [r \in Requests |-> "pending"]
    /\ api_response = [r \in Requests |-> NoResponse]
    /\ adv_call     = NoCall
    /\ adv_result   = NoCall

\* ------------------------------------------------------------ batch metrics
\* psi, in hundredths: round(severity_sum / (MAX_SEVERITY_SCORE * n) * 100, 2)
percent_severity_index_per_class(ssum, n) ==
    PyRound(ssum * 10000, NUM_CLASSES * n)

percent_severity_index(ssum, n) ==
    PyRound(ssum * 10000, MAX_SEVERITY_SCORE * n)

overall_severity_index_half_up(ssum, n) ==
    PyRoundHalfUp(ssum, n)

\* overall_idx: round(severity_sum / n)
overall_severity_index(ssum, n) ==
    PyRound(ssum, n)

weather_block_swapped(h, t, w, la, lo) ==
    [humidity |-> h, temperature |-> t, wetness |-> w, lat |-> lo, lon |-> la]

weather_block(h, t, w, la, lo) ==
    [humidity |-> h, temperature |-> t, wetness |-> w, lat |-> la, lon |-> lo]

\* Everything the handler does after the loop: batch metrics, the
\* recommendation and the response.  The result is the request's outcome
\* and, when the handler returns, its response.
batch_metrics(preds, ssum, h, t, w, la, lo) ==
    IF Len(preds) = 0
    THEN [outcome |-> "ZeroDivisionError", response |-> NoResponse]
    ELSE LET psi            == percent_severity_index(ssum, Len(preds))
             overall_idx    == overall_severity_index(ssum, Len(preds))
             overall_label  == PyIndex(CLASS_LABELS, overall_idx)
             recommendation == get_recommendation(overall_idx, h, t, w)
         IN  IF overall_label.kind # "ok"
             THEN [outcome |-> overall_label.kind, response |-> NoResponse]
             ELSE IF recommendation.kind # "ok"
             THEN [outcome |-> recommendation.kind, response |-> NoResponse]
             ELSE [outcome  |-> "ok",
                   response |->
                     [kind                   |-> "ok",
                      percent_severity_index |-> psi,
                      overall_label          |-> overall_label.value,
                      overall_severity_index |-> overall_idx,
                      weather                |-> weather_block(h, t, w, la, lo),
                      recommendation         |-> recommendation]]

add_severity_shared(ssums, r, severity) ==
    ssums[1] + severity

\* severity_sum += severity, on the request's own accumulator
add_severity(ssums, r, severity) ==
    ssums[r] + severity

\* ------------------------------------------------------------------ actions
\* The handler is entered: it runs up to its first await.  With no file the
\* loop body never runs and the batch metrics are computed at once.
Receive(r, f, h, t, w, la, lo) ==
    /\ pc[r] = "idle"
    /\ files'        = [files EXCEPT ![r] = f]
    /\ humidity'     = [humidity EXCEPT ![r] = h]
    /\ temperature'  = [temperature EXCEPT ![r] = t]
    /\ wetness'      = [wetness EXCEPT ![r] = w]
    /\ lat'          = [lat EXCEPT ![r] = la]
    /\ lon'          = [lon EXCEPT ![r] = lo]
    /\ predictions'  = [predictions EXCEPT ![r] = <<>>]
    /\ severity_sum' = [severity_sum EXCEPT ![r] = 0]
    /\ idx'          = [idx EXCEPT ![r] = 0]
    /\ IF Len(f) = 0
       THEN LET res == batch_metrics(<<>>, 0, h, t, w, la, lo)
            IN  /\ pc'           = [pc EXCEPT ![r] = "done"]
                /\ outcome'      = [outcome EXCEPT ![r] = res.outcome]
                /\ api_response' = [api_response EXCEPT ![r] = res.response]
       ELSE /\ pc'           = [pc EXCEPT ![r] = "read"]
            /\ outcome'      = [outcome EXCEPT ![r] = "pending"]
            /\ api_response' = [api_response EXCEPT ![r] = NoResponse]
    /\ UNCHANGED adv_vars

\* A client that sends one request at a time.
ReceiveAlone(r) ==
    /\ \A q \in Requests : pc[q] = "idle"
    /\ \E f \in SeqsUpTo(Images, MaxBatch), wx \in RouteWeather,
          la \in Lats, lo \in Lons :
          Receive(r, f, wx[1], wx[2], wx[3], la, lo)

\* Clients that send requests while others are being served.
ReceiveConcurrent(r) ==
    \E f \in SeqsUpTo(ConcImages, MaxConcBatch), wx \in ConcWeather :
       Receive(r, f, wx[1], wx[2], wx[3], HomeCoords[1], HomeCoords[2])

\* Clients in several places that send requests while others are served.
ReceiveFromAnywhere(r) ==
    \E f \in SeqsUpTo(ConcImages, MaxGeoBatch), wx \in ConcWeather,
       c \in ConcCoords :
       Receive(r, f, wx[1], wx[2], wx[3], c[1], c[2])

\* await file.read() completes and the handler runs to its next await or to
\* its end: decode, classify, append, accumulate, and after the last file
\* the batch metrics and the response.
ResumeRead(r) ==
    /\ pc[r] = "read"
    /\ LET file == files[r][idx[r] + 1]
       IN  IF ~file.decodable
           THEN /\ pc'      = [pc EXCEPT ![r] = "done"]
                /\ outcome' = [outcome EXCEPT ![r] = "UnidentifiedImageError"]
                /\ UNCHANGED <<idx, predictions, severity_sum, api_response>>
           ELSE LET severity == file.class
                    label    == PyIndex(CLASS_LABELS, severity).value
                    preds    == Append(predictions[r],
                                       [idx |-> idx[r], severity |-> severity,
                                        label |-> label])
                    ssum     == add_severity(severity_sum, r, severity)
                IN  /\ predictions'  = [predictions EXCEPT ![r] = preds]
                    /\ severity_sum' = [severity_sum EXCEPT ![r] = ssum]
                    /\ IF idx[r] + 1 < Len(files[r])
                       THEN /\ idx' = [idx EXCEPT ![r] = idx[r] + 1]
                            /\ UNCHANGED <<pc, outcome, api_response>>
                       ELSE LET res == batch_metrics(preds, ssum, humidity[r],
                                           temperature[r], wetness[r],
                                           lat[r], lon[r])
                            IN  /\ pc'           = [pc EXCEPT ![r] = "done"]
                                /\ outcome'      = [outcome EXCEPT ![r] = res.outcome]
                                /\ api_response' = [api_response EXCEPT ![r] = res.response]
                                /\ UNCHANGED idx
    /\ UNCHANGED <<files, humidity, temperature, wetness, lat, lon, adv_vars>>

\* The response (or the error) has been sent; the handler's locals are gone.
Discard(r) ==
    /\ pc[r] = "done"
    /\ pc'           = [pc EXCEPT ![r] = "idle"]
    /\ files'        = [files EXCEPT ![r] = <<>>]
    /\ humidity'     = [humidity EXCEPT ![r] = 0]
    /\ temperature'  = [temperature EXCEPT ![r] = 0]
    /\ wetness'      = [wetness EXCEPT ![r] = 0]
    /\ lat'          = [lat EXCEPT ![r] = 0]
    /\ lon'          = [lon EXCEPT ![r] = 0]
    /\ idx'          = [idx EXCEPT ![r] = 0]
    /\ predictions'  = [predictions EXCEPT ![r] = <<>>]
    /\ severity_sum' = [severity_sum EXCEPT ![r] = 0]
    /\ outcome'      = [outcome EXCEPT ![r] = "pending"]
    /\ api_response' = [api_response EXCEPT ![r] = NoResponse]
    /\ UNCHANGED adv_vars

\* A direct call of the prescription engine.
CallRecommendation ==
    /\ adv_call = NoCall
    /\ \E i \in IdxRange, h \in Hums, t \in Temps, w \in Wets :
          /\ adv_call'   = [kind |-> "call", severity_idx |-> i, humidity |-> h,
                            temperature |-> t, wetness |-> w]
          /\ adv_result' = get_recommendation(i, h, t, w)
    /\ UNCHANGED route_vars

\* The caller has consumed the result.
ForgetCall ==
    /\ adv_call # NoCall
    /\ adv_call'   = NoCall
    /\ adv_result' = NoCall
    /\ UNCHANGED route_vars

Next ==
    \/ \E r \in Requests : ReceiveAlone(r)
    \/ \E r \in Requests : ResumeRead(r)
    \/ \E r \in Requests : Discard(r)

NextConcurrent ==
    \/ \E r \in Requests : ReceiveConcurrent(r)
    \/ \E r \in Requests : ResumeRead(r)
    \/ \E r \in Requests : Discard(r)

NextGeo ==
    \/ \E r \in Requests : ReceiveFromAnywhere(r)
    \/ \E r \in Requests : ResumeRead(r)
    \/ \E r \in Requests : Discard(r)

NextAdvisor ==
    \/ CallRecommendation
    \/ ForgetCall

Spec           == Init /\ [][Next]_vars
SpecConcurrent == Init /\ [][NextConcurrent]_vars
SpecGeo        == Init /\ [][NextGeo]_vars
SpecAdvisor    == Init /\ [][NextAdvisor]_vars

\* ===================================================== properties: helpers
RECURSIVE SumClasses(_)
SumClasses(f) ==
    IF Len(f) = 0 THEN 0 ELSE f[1].class + SumClasses(Tail(f))

AllDecodable(f) == \A k \in 1 .. Len(f) : f[k].decodable

\* |a|
Abs(a) == IF a < 0 THEN -a ELSE a

\* q is an integer nearest to n / d
Nearest(q, n, d) == 2 * Abs(q * d - n) <= d

HighRule(temp, rh, wet) ==
    \/ (25 <= temp /\ temp <= 30 /\ rh >= 95 /\ wet >= 12)
    \/ (22 <= temp /\ temp <= 30 /\ rh >= 95 /\ wet >= 6)

LowRule(temp, rh, wet) == temp < 22 \/ rh < 85 \/ wet < 6

\* the classifier with the two rules checked in the opposite order
LowFirstRisk(temp, rh, wet) ==
    IF LowRule(temp, rh, wet) THEN "Low"
    ELSE IF HighRule(temp, rh, wet) THEN "High"
    ELSE "Medium"

Called   == adv_call.kind = "call"
Returned == adv_result.kind = "ok"
CalledWith(i, h, t, w) ==
    /\ Called
    /\ adv_call.severity_idx = i /\ adv_call.humidity = h
    /\ adv_call.temperature = t  /\ adv_call.wetness = w

Served(r) == pc[r] = "done" /\ outcome[r] = "ok"

\* ================================================================= claims
\* C1: a request with an empty image batch ends in InvalidInputError; it
\* never reaches the batch-metric division with a count of 0.
C1_EmptyBatchRejected ==
    \A r \in Requests :
        (pc[r] = "done" /\ Len(files[r]) = 0)
            => outcome[r] = "InvalidInputError"

\* C2: the risk tier returned is exactly one of Low, Medium, High, decided
\* in the order High rule, then Low rule, then Medium; the four sample
\* readings give High, High, Low and Medium.
C2_RiskTier ==
    Returned =>
        LET t    == adv_call.temperature
            h    == adv_call.humidity
            w    == adv_call.wetness
            risk == adv_result.weather_risk
        IN  /\ risk \in RISK_TIERS
            /\ (risk = "High") <=> HighRule(t, h, w)
            /\ (risk = "Low") <=> (~HighRule(t, h, w) /\ LowRule(t, h, w))
            /\ (risk = "Medium") <=> (~HighRule(t, h, w) /\ ~LowRule(t, h, w))
            /\ (t = 27 /\ h = 96 /\ w = 13) => risk = "High"
            /\ (t = 23 /\ h = 96 /\ w = 7)  => risk = "High"
            /\ (t = 18 /\ h = 99 /\ w = 20) => risk = "Low"
            /\ (t = 24 /\ h = 90 /\ w = 8)  => risk = "Medium"

C2_Witness ==
    /\ CalledWith(1, 96, 23, 7)
    /\ Returned
    /\ adv_result.weather_risk = "High"
    /\ ~high_classic(23, 96, 7)

\* C3 as stated: some reading matches the High rule and the Low rule at
\* once, and for some reading the Low-first classifier and _weather_risk
\* disagree.
C3_OrderIsLoadBearing ==
    Called =>
    /\ \E t \in Temps, h \in Hums, w \in Wets :
          HighRule(t, h, w) /\ LowRule(t, h, w)
    /\ \E t \in Temps, h \in Hums, w \in Wets :
          LowFirstRisk(t, h, w) # _weather_risk(t, h, w)

\* C3 as amended: no reading matches the High rule and the Low rule at
\* once, and the tier returned is the tier the Low-first classifier gives.
C3_RulesDisjoint ==
    Returned =>
        LET t == adv_call.temperature
            h == adv_call.humidity
            w == adv_call.wetness
        IN  /\ ~((high_classic(t, h, w) \/ high_rainsun(t, h, w))
                   /\ low_rule(t, h, w))
            /\ adv_result.weather_risk = LowFirstRisk(t, h, w)

C3_Witness ==
    /\ CalledWith(2, 95, 22, 6)
    /\ Returned
    /\ adv_result.weather_risk = "High"
    /\ LowFirstRisk(22, 95, 6) = "High"

\* C4: the running severity_sum after k images lies in 0 .. 3k; for a
\* served batch of N images percent_severity_index is sum / (3N) * 100 to
\* the nearest hundredth and lies in 0 .. 100; a single image of class
\* 0, 1, 2, 3 gives 0.0, 33.33, 66.67, 100.0.
C4_PercentSeverityIndex ==
    \A r \in Requests :
        /\ severity_sum[r] >= 0
        /\ severity_sum[r] <= MAX_SEVERITY_SCORE * Len(predictions[r])
        /\ Served(r) =>
              LET N   == Len(files[r])
                  S   == SumClasses(files[r])
                  psi == api_response[r].percent_severity_index
              IN  /\ N >= 1
                  /\ Nearest(psi, S * 10000, 3 * N)
                  /\ 0 <= psi /\ psi <= 10000
                  /\ (N = 1 /\ S = 0) => psi = 0
                  /\ (N = 1 /\ S = 1) => psi = 3333
                  /\ (N = 1 /\ S = 2) => psi = 6667
                  /\ (N = 1 /\ S = 3) => psi = 10000

C4_Witness ==
    \E r \in Requests :
        /\ Served(r)
        /\ files[r] = <<Image(2)>>
        /\ api_response[r].percent_severity_index = 6667

\* C5: for a served batch overall_severity_index is the mean of the classes
\* rounded to the nearest integer, a tie going to the even one; it lies in
\* 0 .. 3 and overall_label is the label at that index; [0,3,0] gives 1 and
\* Mild; means 0.5, 1.5, 2.5 give 0, 2, 2.
C5_OverallIndex ==
    \A r \in Requests :
        Served(r) =>
            LET N   == Len(files[r])
                S   == SumClasses(files[r])
                oi  == api_response[r].overall_severity_index
            IN  /\ oi \in 0 .. 3
                /\ Nearest(oi, S, N)
                /\ (2 * (S % N) = N) => oi % 2 = 0
                /\ api_response[r].overall_label = CLASS_LABELS[oi + 1]
                /\ files[r] = <<Image(0), Image(3), Image(0)>>
                      => (oi = 1 /\ api_response[r].overall_label = "Mild")
                /\ (2 * S = N)     => oi = 0
                /\ (2 * S = 3 * N) => oi = 2
                /\ (2 * S = 5 * N) => oi = 2

C5_Witness ==
    \E r \in Requests :
        /\ Served(r)
        /\ files[r] = <<Image(2), Image(3)>>
        /\ api_response[r].overall_severity_index = 2
        /\ api_response[r].overall_label = "Moderate"

\* every (label, tier) pair is the key of the result of some call
AllPairsProduced ==
    \A l \in 1 .. 4 : \A tier \in RISK_TIERS :
        \E wx \in RouteWeather :
            LET res == get_recommendation(l - 1, wx[1], wx[2], wx[3])
            IN  /\ res.kind = "ok"
                /\ res.severity_label = CLASS_LABELS[l]
                /\ res.weather_risk = tier

AllPairsPresent ==
    \A l \in 1 .. 4 : \A tier \in RISK_TIERS :
        /\ <<CLASS_LABELS[l], tier>> \in DOMAIN _RULE_MATRIX
        /\ <<CLASS_LABELS[l], tier>> \in DOMAIN _INFO_MATRIX

\* C6: a call with severity_idx in 0 .. 3 returns, without a lookup error,
\* the non-empty advice and info keyed by (label of severity_idx, risk
\* tier); all 12 pairs are in both tables and each is produced by a call.
C6_LookupComplete ==
    /\ AllPairsPresent
    /\ AllPairsProduced
    /\ (Called /\ adv_call.severity_idx \in 0 .. 3) =>
          /\ Returned
          /\ adv_result.severity_label = CLASS_LABELS[adv_call.severity_idx + 1]
          /\ adv_result.weather_risk \in RISK_TIERS
          /\ adv_result.advice # "" /\ adv_result.info # ""
          /\ adv_result.advice =
                _RULE_MATRIX[<<adv_result.severity_label, adv_result.weather_risk>>]
          /\ adv_result.info =
                _INFO_MATRIX[<<adv_result.severity_label, adv_result.weather_risk>>]

C6_Witness ==
    /\ CalledWith(3, 90, 24, 8)
    /\ Returned
    /\ adv_result.severity_label = "Severe"
    /\ adv_result.weather_risk = "Medium"
    /\ adv_result.advice = "1. Lop off fruiting twigs with lesions; burn them."

\* C7: a request with a negative humidity (and an otherwise valid batch)
\* ends in InvalidInputError and gets no advisory response.
C7_NegativeHumidityRejected ==
    \A r \in Requests :
        (pc[r] = "done" /\ humidity[r] < 0
            /\ Len(files[r]) > 0 /\ AllDecodable(files[r]))
            => (outcome[r] = "InvalidInputError" /\ api_response[r] = NoResponse)

\* C8: the response's weather block carries the five fields as received,
\* and two served requests that differ only in lat/lon carry the same
\* percent_severity_index, overall label and index, and recommendation.
C8_CoordinatesNotUsed ==
    /\ \A r \in Requests :
          Served(r) =>
              api_response[r].weather =
                  [humidity |-> humidity[r], temperature |-> temperature[r],
                   wetness |-> wetness[r], lat |-> lat[r], lon |-> lon[r]]
    /\ \A r1, r2 \in Requests :
          (/\ Served(r1) /\ Served(r2)
           /\ files[r1] = files[r2]
           /\ humidity[r1] = humidity[r2]
           /\ temperature[r1] = temperature[r2]
           /\ wetness[r1] = wetness[r2])
          => /\ api_response[r1].percent_severity_index
                    = api_response[r2].percent_severity_index
             /\ api_response[r1].overall_label = api_response[r2].overall_label
             /\ api_response[r1].overall_severity_index
                    = api_response[r2].overall_severity_index
             /\ api_response[r1].recommendation = api_response[r2].recommendation

C8_Witness ==
    \E r1, r2 \in Requests :
        /\ Served(r1) /\ Served(r2)
        /\ files[r1] = files[r2] /\ files[r1] = <<Image(3)>>
        /\ humidity[r1] = humidity[r2]
        /\ temperature[r1] = temperature[r2]
        /\ wetness[r1] = wetness[r2]
        /\ lat[r1] # lat[r2] /\ lon[r1] # lon[r2]
        /\ api_response[r1].weather.lat = 14 /\ api_response[r1].weather.lon = 121
        /\ api_response[r2].weather.lat = 15 /\ api_response[r2].weather.lon = 120

\* what a request gets when nothing else runs: the first undecodable file
\* ends it, otherwise the batch metrics of all its files
RECURSIVE PredictionsOf(_, _)
PredictionsOf(f, k) ==
    IF k = 0 THEN <<>>
    ELSE Append(PredictionsOf(f, k - 1),
                [idx |-> k - 1, severity |-> f[k].class,
                 label |-> CLASS_LABELS[f[k].class + 1]])

RunAlone(f, h, t, w, la, lo) ==
    IF ~AllDecodable(f)
    THEN [outcome |-> "UnidentifiedImageError", response |-> NoResponse]
    ELSE batch_metrics(PredictionsOf(f, Len(f)), SumClasses(f), h, t, w, la, lo)

\* C9: whatever the interleaving at the read points, a request's
\* accumulators hold exactly its own processed files (so no other request
\* changed them), its outcome and response are those it gets when run
\* alone, and identical requests get identical responses.
C9_Isolated ==
    /\ \A r \in Requests :
          /\ pc[r] = "idle" =>
                (predictions[r] = <<>> /\ severity_sum[r] = 0)
          /\ pc[r] = "read" =>
                /\ predictions[r] = PredictionsOf(files[r], idx[r])
                /\ severity_sum[r] = SumClasses(SubSeq(files[r], 1, idx[r]))
          /\ pc[r] = "done" =>
                LET alone == RunAlone(files[r], humidity[r], temperature[r],
                                      wetness[r], lat[r], lon[r])
                IN  outcome[r] = alone.outcome /\ api_response[r] = alone.response
    /\ \A r1, r2 \in Requests :
          (/\ pc[r1] = "done" /\ pc[r2] = "done"
           /\ files[r1] = files[r2]
           /\ humidity[r1] = humidity[r2] /\ temperature[r1] = temperature[r2]
           /\ wetness[r1] = wetness[r2]
           /\ lat[r1] = lat[r2] /\ lon[r1] = lon[r2])
          => (outcome[r1] = outcome[r2] /\ api_response[r1] = api_response[r2])

C9_Witness ==
    /\ pc[1] = "read" /\ pc[2] = "read"
    /\ idx[1] = 1 /\ idx[2] = 1
    /\ severity_sum[1] = 3 /\ severity_sum[2] = 0
    /\ files[1] = <<Image(3), Image(3)>>
    /\ files[2] = <<Image(0), Image(3)>>
    /\ temperature[1] # temperature[2]

\* C10: a call with severity_idx outside 0 .. 3 ends in an error and never
\* returns an advisory.
C10_IndexOutOfDomainRejected ==
    (Called /\ adv_call.severity_idx \notin 0 .. 3) => ~Returned

====
